---- MODULE Spec2Model ----
(***************************************************************************)
(* Model of the deep-research pipeline of tavily_deep_research:            *)
(*   - research_agent_scope.py   clarify_with_user, write_research_brief,  *)
(*                               parse_success_criteria, scope_research    *)
(*   - state_scope.py            AgentState and its channel reducers       *)
(*   - tavily_deep_research_agent.py                                       *)
(*                               run_researcher_agent,                     *)
(*                               final_report_generation, agent            *)
(*                                                                         *)
(* Text is a sequence of tokens.  "SC" stands for one occurrence of the    *)
(* phrase "Success Criteria" in any letter case (the literal the regular   *)
(* expression of parse_success_criteria searches with re.IGNORECASE),      *)
(* "-" and "@" are the two bullet markers of the character class [•\-]     *)
(* ("@" is U+2022), "SP" is a blank, "NL" a line feed, "*" an asterisk and *)
(* "a", "b" are ordinary letters.                                          *)
(***************************************************************************)
EXTENDS Integers, Sequences, FiniteSets, TLC

\* ---------------------------------------------------------------- bounds
MaxLines == 3          \* lines of a brief in the extractor specification
MaxToolCalls == 2      \* tool calls one sub-agent run may make in the model
MaxNotes == 2          \* raw note fragments one sub-agent run may return

\* ---------------------------------------------------------------- text
Markers == {"-", "@"}
Space == {"SP", "NL"}

IsSpace(c) == c \in Space

RECURSIVE JoinNL(_)
\* "\n".join(lines)
JoinNL(ls) ==
  IF ls = <<>> THEN <<>>
  ELSE IF Len(ls) = 1 THEN ls[1]
  ELSE ls[1] \o <<"NL">> \o JoinNL(Tail(ls))

RECURSIVE LStrip(_)
LStrip(s) == IF s # <<>> /\ IsSpace(Head(s)) THEN LStrip(Tail(s)) ELSE s

RECURSIVE RStrip(_)
RStrip(s) ==
  IF s # <<>> /\ IsSpace(s[Len(s)]) THEN RStrip(SubSeq(s, 1, Len(s) - 1)) ELSE s

\* str.strip()
Strip(s) == RStrip(LStrip(s))

RECURSIVE CollapseSpace(_)
\* re.sub(r"\s+", " ", s): every maximal run of whitespace becomes one blank
CollapseSpace(s) ==
  IF s = <<>> THEN <<>>
  ELSE IF IsSpace(Head(s)) THEN <<"SP">> \o CollapseSpace(LStrip(s))
  ELSE <<Head(s)>> \o CollapseSpace(Tail(s))

\* positions of the phrase in s
PhrasePositions(s) == {i \in 1..Len(s) : s[i] = "SC"}

\* re.search(r"Success Criteria(.*)", brief, IGNORECASE | DOTALL).group(1):
\* the text after the leftmost occurrence of the phrase
SearchSection(s) ==
  LET i == CHOOSE p \in PhrasePositions(s) : \A q \in PhrasePositions(s) : p <= q
  IN SubSeq(s, i + 1, Len(s))

\* end (inclusive) of the line that holds position p: "." does not match NL
LineEnd(s, p) ==
  IF \E j \in p..Len(s) : s[j] = "NL"
  THEN (CHOOSE j \in p..Len(s) : s[j] = "NL" /\ \A k \in p..(j - 1) : s[k] # "NL") - 1
  ELSE Len(s)

\* positions from which "(.+)" can start after a marker at q: \s* has taken
\* the positions q+1 .. p-1, all whitespace, and s[p] is not a line feed
CaptureStarts(s, q) ==
  {p \in (q + 1)..Len(s) : s[p] # "NL" /\ \A k \in (q + 1)..(p - 1) : IsSpace(s[k])}

\* the pattern [•\-]\s*(.+) matches at q
MatchesAt(s, q) == s[q] \in Markers /\ CaptureStarts(s, q) # {}

\* start of the capture for a match at q: \s* is greedy
CaptureStart(s, q) ==
  CHOOSE p \in CaptureStarts(s, q) : \A r \in CaptureStarts(s, q) : r <= p

RECURSIVE FindAllFrom(_, _)
\* re.findall(r"[•\-]\s*(.+)", s), scanning from position p: leftmost match,
\* capture to the end of the line, resume after the match
FindAllFrom(s, p) ==
  IF \E q \in p..Len(s) : MatchesAt(s, q)
  THEN LET q == CHOOSE x \in p..Len(s) :
                  MatchesAt(s, x) /\ \A y \in p..(x - 1) : ~MatchesAt(s, y)
           b == CaptureStart(s, q)
           e == LineEnd(s, b)
       IN <<SubSeq(s, b, e)>> \o FindAllFrom(s, e + 1)
  ELSE <<>>

FindAll(s) == FindAllFrom(s, 1)

\* a clean_line that is stripped but whose inner whitespace is kept
CleanLineStripOnly(line) == Strip(line)

\* the loop body's clean_line
CleanLine(line) == Strip(CollapseSpace(line))

\* the keys the loop of parse_success_criteria puts into criteria_dict
CriteriaKeys(brief) ==
  IF PhrasePositions(brief) = {} THEN {}
  ELSE LET lines == FindAll(Strip(SearchSection(brief)))
       IN {CleanLine(lines[i]) : i \in 1..Len(lines)} \ {<<>>}


\* ---------------------------------------------------------------- values
Unset == "<unset>"          \* final_report before any node has written it
UnsetBrief == <<"<unset>">> \* research_brief before any node has written it
END == "__end__"

UserInputs == {"u1", "u2"}
Questions == {"q1"}
Verifications == {"v1"}
Reports == {"", "r1"}                \* contents the writer model may return
Findings == {"f1"}                   \* compressed_research of a sub-agent run
NoteTexts == {<<"a">>, <<"b">>}      \* raw note fragments
ToolOutputs == {"ok", "error"}       \* observations of one tool call
ExtraKeys == {<<"b">>}               \* a criterion the brief need not name

\* briefs the brief-writing model may return in a pipeline run
Briefs ==
  { <<>>,
    <<"a">>,
    <<"a", "NL", "SC", "NL", "-", "SP", "a">>,
    <<"a", "NL", "SC", "NL", "-", "SP", "a", "NL", "@", "SP", "b">>,
    <<"SC", "SP", "-", "SP", "b", "NL", "SC", "NL", "-", "SP", "a">> }

AIMessage(c) == [type |-> "ai", content |-> c]
HumanMessage(c) == [type |-> "human", content |-> c]

\* ClarifyWithUser
ClarifyResponses ==
  [need_clarification : BOOLEAN, question : Questions, verification : Verifications]

\* ---------------------------------------------------------------- state
VARIABLES
  user_input,           \* the text of the invocation's HumanMessage
  node,                 \* the node the graph executes next, or END
  trace,                \* the nodes executed so far, in order
  response,             \* clarify_with_user's structured response
  messages,             \* AgentState.messages
  research_brief,       \* AgentState.research_brief
  success_criteria,     \* AgentState.success_criteria
  supervisor_messages,  \* AgentState.supervisor_messages
  raw_notes,            \* AgentState.raw_notes
  final_report,         \* AgentState.final_report
  researcher,           \* the researcher_agent invocation and its own state
  writer,               \* the writer_model invocation: its prompt and its reply
  ui,                   \* run_agent_stream: where it is and what it displays
  base_criteria,        \* reducer specification: the mapping before the updates
  updates,              \* reducer specification: the contributors' updates
  applied               \* reducer specification: the updates applied, in order

vars == <<user_input, node, trace, response, messages, research_brief,
          success_criteria, supervisor_messages, raw_notes, final_report,
          researcher, writer, ui, base_criteria, updates, applied>>

state_vars == <<messages, research_brief, success_criteria,
                supervisor_messages, raw_notes, final_report>>
reducer_vars == <<base_criteria, updates, applied>>

\* run_agent_stream has not been called
NoSubmission == [phase |-> "none", runs |-> 0, streamed |-> Unset, report |-> Unset]

\* ---------------------------------------------------------------- reducers
EmptyDict == << >>

\* a reducer that replaces the value (what a LastValue channel would do)
or_overwrite(m, u) == u

\* operator.or_ on two dicts, m | u: the union of the keys, and for a key of
\* both the value of the right operand
or_(m, u) ==
  [k \in (DOMAIN m) \cup (DOMAIN u) |-> IF k \in DOMAIN u THEN u[k] ELSE m[k]]

\* a list reducer that drops the fragments the list already holds
add_dedup(xs, ys) ==
  LET IsNew(y) == \A i \in DOMAIN xs : xs[i] # y
  IN xs \o SelectSeq(ys, IsNew)

\* a list reducer that keeps only the newest entry
add_latest(xs, ys) ==
  LET all == xs \o ys IN IF all = <<>> THEN <<>> ELSE <<all[Len(all)]>>

\* operator.add on two lists
add(xs, ys) == xs \o ys

\* a messages reducer that replaces the conversation by the update
add_messages_replace(xs, ys) == ys

\* add_messages: the update's messages carry fresh ids, so they are appended
add_messages(xs, ys) == xs \o ys

\* dict.get(key, default) on the sub-agent's result; d.present is its key set
Get(d, key, default) == IF key \in d.present THEN d[key] ELSE default


\* ---------------------------------------------------------------- graph
\* the edges deep_researcher_builder.add_edge declares for `agent`
\* (clarify_with_user has none: it routes with Command(goto=...))
EdgeBackToBrief(n) ==
  CASE n = "write_research_brief" -> "parse_success_criteria"
    [] n = "parse_success_criteria" -> "run_researcher_agent"
    [] n = "run_researcher_agent" -> "final_report_generation"
    [] n = "final_report_generation" -> "write_research_brief"

Edge(n) ==
  CASE n = "write_research_brief" -> "parse_success_criteria"
    [] n = "parse_success_criteria" -> "run_researcher_agent"
    [] n = "run_researcher_agent" -> "final_report_generation"
    [] n = "final_report_generation" -> END

\* the nodes of `agent` in the order of its edges
Stages == << "clarify_with_user", "write_research_brief", "parse_success_criteria",
             "run_researcher_agent", "final_report_generation" >>

\* the run aborted: node n raised and nothing in the graph catches it
Raise(n) ==
  CASE n = "clarify_with_user" -> "raise:clarify_with_user"
    [] n = "write_research_brief" -> "raise:write_research_brief"
    [] n = "parse_success_criteria" -> "raise:parse_success_criteria"
    [] n = "run_researcher_agent" -> "raise:run_researcher_agent"
    [] n = "final_report_generation" -> "raise:final_report_generation"

RaisedNodes == {Raise(Stages[i]) : i \in 1..Len(Stages)}

Range(f) == {f[i] : i \in DOMAIN f}
IsPrefix(s, t) == Len(s) <= Len(t) /\ SubSeq(t, 1, Len(s)) = s

\* ---------------------------------------------------------------- briefs
\* the lines of the briefs of the extractor specifications
Lines ==
  { <<>>,                                  \* an empty line
    <<"a">>,                               \* prose
    <<"SC">>,                              \* the heading
    <<"-", "SP", "a">>,                    \* bullet items
    <<"@", "SP", "b">>,
    <<"-", "SP", "a", "SP", "SP", "b">>,
    <<"SP", "-", "a", "SP">>,
    <<"-">>,                               \* a marker with no text
    <<"*", "SP", "a">>,                    \* an item with another marker
    <<"a", "-", "b">>,                     \* prose with a hyphen
    <<"SC", "SP", "-", "SP", "b">> }       \* prose that uses the phrase

LineSeqs == UNION {[1..n -> Lines] : n \in 0..MaxLines}
ExtractorBriefs == {JoinNL(ls) : ls \in LineSeqs}

\* every brief the model hands to parse_success_criteria
KnownBriefs == Briefs \cup ExtractorBriefs \cup {UnsetBrief}

\* ---------------------------------------------------------------- scoping
ClarifyGotoBrief(resp) == "write_research_brief"
ClarifyGotoEnd(resp) == END
ClarifyGotoResearch(resp) ==
  IF resp.need_clarification THEN END ELSE "run_researcher_agent"

\* clarify_with_user: Command(goto=...)
ClarifyGoto(resp) ==
  IF resp.need_clarification THEN END ELSE "write_research_brief"

\* an update that always carries the question
ClarifyUpdateBoth(resp) ==
  IF resp.need_clarification
  THEN <<AIMessage(resp.question)>>
  ELSE <<AIMessage(resp.question), AIMessage(resp.verification)>>

\* clarify_with_user: Command(update=...)
ClarifyUpdate(resp) ==
  IF resp.need_clarification
  THEN <<AIMessage(resp.question)>>
  ELSE <<AIMessage(resp.verification)>>

\* a clarify step that also files its question as the report
clarify_with_user_reports ==
  /\ node = "clarify_with_user"
  /\ \E resp \in ClarifyResponses :
       /\ response' = resp
       /\ messages' = add_messages(messages, ClarifyUpdate(resp))
       /\ final_report' = resp.question
       /\ node' = ClarifyGoto(resp)
  /\ trace' = Append(trace, "clarify_with_user")
  /\ UNCHANGED <<user_input, research_brief, success_criteria, supervisor_messages,
                 raw_notes, researcher>>
  /\ UNCHANGED writer
  /\ UNCHANGED ui
  /\ UNCHANGED reducer_vars

clarify_with_user ==
  /\ node = "clarify_with_user"
  /\ \E resp \in ClarifyResponses :
       /\ response' = resp
       /\ messages' = add_messages(messages, ClarifyUpdate(resp))
       /\ node' = ClarifyGoto(resp)
  /\ trace' = Append(trace, "clarify_with_user")
  /\ UNCHANGED <<user_input, research_brief, success_criteria, supervisor_messages,
                 raw_notes, final_report, researcher>>
  /\ UNCHANGED writer
  /\ UNCHANGED ui
  /\ UNCHANGED reducer_vars

\* structured_output_model.invoke raises in clarify_with_user
clarify_with_user_raises ==
  /\ node = "clarify_with_user"
  /\ node' = Raise(node)
  /\ UNCHANGED <<user_input, trace, response, researcher>>
  /\ UNCHANGED state_vars
  /\ UNCHANGED writer
  /\ UNCHANGED ui
  /\ UNCHANGED reducer_vars

write_research_brief ==
  /\ node = "write_research_brief"
  /\ \E b \in Briefs :
       /\ research_brief' = b
       /\ supervisor_messages' =
            add(supervisor_messages, <<HumanMessage(b \o <<".">>)>>)
  /\ node' = Edge(node)
  /\ trace' = Append(trace, "write_research_brief")
  /\ UNCHANGED <<user_input, response, messages, success_criteria, raw_notes,
                 final_report, researcher>>
  /\ UNCHANGED writer
  /\ UNCHANGED ui
  /\ UNCHANGED reducer_vars

\* a brief step that has written its supervisor message when the call raises
write_research_brief_raises_partial ==
  /\ node = "write_research_brief"
  /\ node' = Raise(node)
  /\ \E b \in Briefs :
       supervisor_messages' = add(supervisor_messages, <<HumanMessage(b \o <<".">>)>>)
  /\ UNCHANGED <<user_input, trace, response, researcher, messages, research_brief,
                 success_criteria, raw_notes, final_report>>
  /\ UNCHANGED writer
  /\ UNCHANGED ui
  /\ UNCHANGED reducer_vars

\* structured_output_model.invoke raises in write_research_brief
write_research_brief_raises ==
  /\ node = "write_research_brief"
  /\ node' = Raise(node)
  /\ UNCHANGED <<user_input, trace, response, researcher>>
  /\ UNCHANGED state_vars
  /\ UNCHANGED writer
  /\ UNCHANGED ui
  /\ UNCHANGED reducer_vars

\* the dict parse_success_criteria builds for a brief
ExtractCriteria(brief) ==
  IF brief = UnsetBrief \/ brief = <<>> THEN EmptyDict
  ELSE [k \in CriteriaKeys(brief) |-> FALSE]

\* ExtractCriteria, computed once for every brief of the model
ParsedBriefs == [b \in KnownBriefs |-> ExtractCriteria(b)]

\* an extractor that carries over the flags the run state already holds
ParseKeepingFlags(brief) ==
  IF brief = UnsetBrief \/ brief = <<>> THEN EmptyDict
  ELSE [k \in CriteriaKeys(brief) |->
          k \in DOMAIN success_criteria /\ success_criteria[k]]

\* the dict parse_success_criteria returns under "success_criteria"
ParseSuccessCriteria(brief) == ParsedBriefs[brief]

parse_success_criteria ==
  /\ node = "parse_success_criteria"
  /\ success_criteria' = or_(success_criteria, ParseSuccessCriteria(research_brief))
  /\ node' = Edge(node)
  /\ trace' = Append(trace, "parse_success_criteria")
  /\ UNCHANGED <<user_input, response, messages, research_brief,
                 supervisor_messages, raw_notes, final_report, researcher>>
  /\ UNCHANGED writer
  /\ UNCHANGED ui
  /\ UNCHANGED reducer_vars


\* ---------------------------------------------------------------- research
ResultKeys == {"researcher_messages", "compressed_research", "raw_notes",
               "success_criteria"}

\* no researcher_agent invocation has been made; in_flight counts the calls of
\* researcher_agent.invoke that have not returned
IdleResearcher ==
  [ status |-> "idle", researcher_messages |-> <<>>, tool_call_iterations |-> 0,
    research_topic |-> UnsetBrief, compressed_research |-> "", raw_notes |-> <<>>,
    success_criteria |-> EmptyDict, present |-> {}, in_flight |-> 0 ]

\* a researcher_input whose counter is not reset
ResearcherInputStale(topic, criteria, supervisor_msgs) ==
  [ status |-> "running", researcher_messages |-> supervisor_msgs,
    tool_call_iterations |-> Len(supervisor_msgs), research_topic |-> topic,
    compressed_research |-> "", raw_notes |-> <<>>,
    success_criteria |-> criteria, present |-> ResultKeys, in_flight |-> 0 ]

\* a researcher_input whose notes are seeded with the brief
ResearcherInputSeeded(topic, criteria, supervisor_msgs) ==
  [ status |-> "running", researcher_messages |-> supervisor_msgs,
    tool_call_iterations |-> 0, research_topic |-> topic,
    compressed_research |-> "", raw_notes |-> <<topic>>,
    success_criteria |-> criteria, present |-> ResultKeys, in_flight |-> 0 ]

\* run_researcher_agent: the researcher_input dict
ResearcherInput(topic, criteria, supervisor_msgs) ==
  [ status |-> "running", researcher_messages |-> supervisor_msgs,
    tool_call_iterations |-> 0, research_topic |-> topic,
    compressed_research |-> "", raw_notes |-> <<>>,
    success_criteria |-> criteria, present |-> ResultKeys, in_flight |-> 0 ]

\* the values the configured maximum of concurrent research tasks may have
MaxConcurrentLimit == 3
ConcurrencyLimits == 1..MaxConcurrentLimit

\* the tool-call ceiling of a sub-agent
ToolCallCeiling == MaxToolCalls

NoteSeqs == UNION {[1..n -> NoteTexts] : n \in 0..MaxNotes}

\* the mappings a sub-agent may report for the criteria it was given
CriteriaReports(criteria) ==
  UNION {[S -> BOOLEAN] : S \in SUBSET ((DOMAIN criteria) \cup ExtraKeys)}

\* the key sets a sub-agent's result may have
ResultKeySets == {ResultKeys, ResultKeys \ {"success_criteria"}}

\* a dispatch that does not wait for the sub-agent: the graph moves on at once
run_researcher_agent_dispatch ==
  /\ node = "run_researcher_agent"
  /\ researcher.status = "idle"
  /\ researcher' =
       [ResearcherInput(research_brief, success_criteria, supervisor_messages)
          EXCEPT !.in_flight = researcher.in_flight + 1]
  /\ node' = Edge(node)
  /\ trace' = Append(trace, "run_researcher_agent")
  /\ UNCHANGED <<user_input, response>>
  /\ UNCHANGED state_vars
  /\ UNCHANGED writer
  /\ UNCHANGED ui
  /\ UNCHANGED reducer_vars

\* a node that starts a further sub-agent while one has not returned
run_researcher_agent_fan_out ==
  /\ node = "run_researcher_agent"
  /\ researcher.status \in {"idle", "running"}
  /\ researcher.in_flight <= MaxConcurrentLimit
  /\ researcher' =
       [ResearcherInput(research_brief, success_criteria, supervisor_messages)
          EXCEPT !.in_flight = researcher.in_flight + 1]
  /\ UNCHANGED <<user_input, node, trace, response>>
  /\ UNCHANGED state_vars
  /\ UNCHANGED writer
  /\ UNCHANGED ui
  /\ UNCHANGED reducer_vars

\* run_researcher_agent up to the call researcher_agent.invoke(researcher_input)
run_researcher_agent_invoke ==
  /\ node = "run_researcher_agent"
  /\ researcher.status = "idle"
  /\ researcher' =
       [ResearcherInput(research_brief, success_criteria, supervisor_messages)
          EXCEPT !.in_flight = researcher.in_flight + 1]
  /\ UNCHANGED <<user_input, node, trace, response>>
  /\ UNCHANGED state_vars
  /\ UNCHANGED writer
  /\ UNCHANGED ui
  /\ UNCHANGED reducer_vars

\* a loop in which a failing tool call ends the sub-agent and the run
researcher_tool_call_fatal ==
  /\ researcher.status = "running"
  /\ researcher.tool_call_iterations < ToolCallCeiling
  /\ \E o \in ToolOutputs :
       /\ researcher' =
            [researcher EXCEPT
               !.researcher_messages = Append(@, [type |-> "tool", content |-> o]),
               !.tool_call_iterations = @ + 1,
               !.status = IF o = "error" THEN "failed" ELSE @]
       /\ node' = IF o = "error" THEN Raise(node) ELSE node
  /\ UNCHANGED <<user_input, trace, response>>
  /\ UNCHANGED state_vars
  /\ UNCHANGED writer
  /\ UNCHANGED ui
  /\ UNCHANGED reducer_vars

\* one iteration of the sub-agent's tool-calling loop
researcher_tool_call ==
  /\ researcher.status = "running"
  /\ researcher.tool_call_iterations < ToolCallCeiling
  /\ \E o \in ToolOutputs :
       researcher' =
         [researcher EXCEPT
            !.researcher_messages = Append(@, [type |-> "tool", content |-> o]),
            !.tool_call_iterations = @ + 1]
  /\ UNCHANGED <<user_input, node, trace, response>>
  /\ UNCHANGED state_vars
  /\ UNCHANGED writer
  /\ UNCHANGED ui
  /\ UNCHANGED reducer_vars

\* loop exit and compression: the sub-agent's result
researcher_compress ==
  /\ researcher.status = "running"
  /\ \E f \in Findings, ns \in NoteSeqs, ks \in ResultKeySets,
        sc \in CriteriaReports(researcher.success_criteria) :
       researcher' =
         [researcher EXCEPT
            !.status = "done",
            !.compressed_research = f,
            !.raw_notes = ns,
            !.success_criteria = IF "success_criteria" \in ks THEN sc ELSE EmptyDict,
            !.present = ks]
  /\ UNCHANGED <<user_input, node, trace, response>>
  /\ UNCHANGED state_vars
  /\ UNCHANGED writer
  /\ UNCHANGED ui
  /\ UNCHANGED reducer_vars

\* researcher_agent.invoke raises: run_researcher_agent returns no update
run_researcher_agent_raises ==
  /\ node = "run_researcher_agent"
  /\ researcher.status = "running"
  /\ researcher' = [researcher EXCEPT !.status = "failed", !.in_flight = @ - 1]
  /\ node' = Raise(node)
  /\ UNCHANGED <<user_input, trace, response>>
  /\ UNCHANGED state_vars
  /\ UNCHANGED writer
  /\ UNCHANGED ui
  /\ UNCHANGED reducer_vars

\* a return whose default for a missing report marks every criterion done
run_researcher_agent_return_marks_done ==
  /\ node = "run_researcher_agent"
  /\ researcher.status = "done"
  /\ raw_notes' = add(raw_notes, Get(researcher, "raw_notes", <<>>))
  /\ supervisor_messages' =
       add(supervisor_messages, Get(researcher, "researcher_messages", <<>>))
  /\ final_report' = Get(researcher, "compressed_research", "")
  /\ success_criteria' =
       or_(success_criteria,
           Get(researcher, "success_criteria",
               [c \in DOMAIN success_criteria |-> TRUE]))
  /\ researcher' = [researcher EXCEPT !.status = "returned", !.in_flight = @ - 1]
  /\ node' = Edge(node)
  /\ trace' = Append(trace, "run_researcher_agent")
  /\ UNCHANGED <<user_input, response, messages, research_brief>>
  /\ UNCHANGED writer
  /\ UNCHANGED ui
  /\ UNCHANGED reducer_vars

\* run_researcher_agent from the return of researcher_agent.invoke: the
\* node's update, merged into the state by the channels' reducers
run_researcher_agent_return ==
  /\ node = "run_researcher_agent"
  /\ researcher.status = "done"
  /\ raw_notes' = add(raw_notes, Get(researcher, "raw_notes", <<>>))
  /\ supervisor_messages' =
       add(supervisor_messages, Get(researcher, "researcher_messages", <<>>))
  /\ final_report' = Get(researcher, "compressed_research", "")
  /\ success_criteria' =
       or_(success_criteria, Get(researcher, "success_criteria", success_criteria))
  /\ researcher' = [researcher EXCEPT !.status = "returned", !.in_flight = @ - 1]
  /\ node' = Edge(node)
  /\ trace' = Append(trace, "run_researcher_agent")
  /\ UNCHANGED <<user_input, response, messages, research_brief>>
  /\ UNCHANGED writer
  /\ UNCHANGED ui
  /\ UNCHANGED reducer_vars

\* ---------------------------------------------------------------- synthesis
\* writer_model.ainvoke has not been called
NoWriterCall ==
  [called |-> FALSE, research_brief |-> UnsetBrief, findings |-> <<>>, content |-> ""]

\* one call of writer_model.ainvoke: the placeholders of the prompt it was
\* given and the content of its reply
WriterCall(brief, findings, content) ==
  [called |-> TRUE, research_brief |-> brief, findings |-> findings, content |-> content]

\* findings that take the fragments newest first
FindingsTextNewestFirst(notes) ==
  JoinNL([i \in 1..Len(notes) |-> notes[Len(notes) + 1 - i]])

\* findings = "\n".join(notes)
FindingsText(notes) == JoinNL(notes)

\* a synthesis step that refuses to run without findings
final_report_generation_needs_notes ==
  /\ node = "final_report_generation"
  /\ raw_notes # <<>>
  /\ \E content \in Reports :
       /\ writer' = WriterCall(research_brief, FindingsText(raw_notes), content)
       /\ final_report' = content
       /\ messages' =
            add_messages(messages,
                         <<HumanMessage(<<"Here is the final report: ", content>>)>>)
  /\ node' = Edge(node)
  /\ trace' = Append(trace, "final_report_generation")
  /\ UNCHANGED <<user_input, response, research_brief, success_criteria,
                 supervisor_messages, raw_notes, researcher, ui>>
  /\ UNCHANGED reducer_vars

\* a synthesis step that rejects a reply without content
final_report_generation_validated ==
  /\ node = "final_report_generation"
  /\ \E content \in Reports :
       /\ writer' = WriterCall(research_brief, FindingsText(raw_notes), content)
       /\ IF content = ""
          THEN /\ node' = Raise(node)
               /\ UNCHANGED <<final_report, messages, trace>>
          ELSE /\ final_report' = content
               /\ messages' =
                    add_messages(messages,
                                 <<HumanMessage(<<"Here is the final report: ", content>>)>>)
               /\ node' = Edge(node)
               /\ trace' = Append(trace, "final_report_generation")
  /\ UNCHANGED <<user_input, response, research_brief, success_criteria,
                 supervisor_messages, raw_notes, researcher, ui>>
  /\ UNCHANGED reducer_vars

final_report_generation ==
  /\ node = "final_report_generation"
  /\ \E content \in Reports :
       /\ writer' = WriterCall(research_brief, FindingsText(raw_notes), content)
       /\ final_report' = content
       /\ messages' =
            add_messages(messages,
                         <<HumanMessage(<<"Here is the final report: ", content>>)>>)
  /\ node' = Edge(node)
  /\ trace' = Append(trace, "final_report_generation")
  /\ UNCHANGED <<user_input, response, research_brief, success_criteria,
                 supervisor_messages, raw_notes, researcher, ui>>
  /\ UNCHANGED reducer_vars

\* writer_model.ainvoke raises in final_report_generation
final_report_generation_raises ==
  /\ node = "final_report_generation"
  /\ node' = Raise(node)
  /\ UNCHANGED <<user_input, trace, response, researcher>>
  /\ UNCHANGED state_vars
  /\ UNCHANGED writer
  /\ UNCHANGED ui
  /\ UNCHANGED reducer_vars

\* ---------------------------------------------------------------- pipeline
\* agent.invoke({"messages": [HumanMessage(content=user_input)]})
Init ==
  /\ user_input \in UserInputs
  /\ node = "clarify_with_user"
  /\ trace = <<>>
  /\ response = [need_clarification |-> FALSE, question |-> "", verification |-> ""]
  /\ messages = <<HumanMessage(user_input)>>
  /\ research_brief = UnsetBrief
  /\ success_criteria = EmptyDict
  /\ supervisor_messages = <<>>
  /\ raw_notes = <<>>
  /\ final_report = Unset
  /\ researcher = IdleResearcher
  /\ writer = NoWriterCall
  /\ ui = NoSubmission
  /\ base_criteria = EmptyDict
  /\ updates = <<>>
  /\ applied = <<>>

Next ==
  \/ clarify_with_user
  \/ write_research_brief
  \/ parse_success_criteria
  \/ run_researcher_agent_invoke
  \/ researcher_tool_call
  \/ researcher_compress
  \/ run_researcher_agent_return
  \/ final_report_generation
  \/ clarify_with_user_raises
  \/ write_research_brief_raises
  \/ run_researcher_agent_raises
  \/ final_report_generation_raises

Spec == Init /\ [][Next]_vars

\* the pipeline when every model invocation and the sub-agent invocation
\* returns: a node that can run does run
NextReturns ==
  \/ clarify_with_user
  \/ write_research_brief
  \/ parse_success_criteria
  \/ run_researcher_agent_invoke
  \/ researcher_tool_call
  \/ researcher_compress
  \/ run_researcher_agent_return
  \/ final_report_generation

SpecReturns == Init /\ [][NextReturns]_vars /\ WF_vars(NextReturns)


\* ---------------------------------------------------------------- reducer
\* The success_criteria channel on its own: a current mapping and the updates
\* of MaxContributors contributors, applied through the reducer in any order.
MaxContributors == 2
MergeKeys == {<<"a">>, <<"b">>}
Mappings == UNION {[S -> BOOLEAN] : S \in SUBSET MergeKeys}

InitMerge ==
  /\ user_input \in UserInputs
  /\ node = END
  /\ trace = <<>>
  /\ response = [need_clarification |-> FALSE, question |-> "", verification |-> ""]
  /\ messages = <<HumanMessage(user_input)>>
  /\ research_brief = UnsetBrief
  /\ base_criteria \in Mappings
  /\ success_criteria = base_criteria
  /\ supervisor_messages = <<>>
  /\ raw_notes = <<>>
  /\ final_report = Unset
  /\ researcher = IdleResearcher
  /\ writer = NoWriterCall
  /\ ui = NoSubmission
  /\ updates \in [1..MaxContributors -> Mappings]
  /\ applied = <<>>

\* the channel receives contributor i's update {"success_criteria": updates[i]}
apply_update ==
  \E i \in (DOMAIN updates) \ Range(applied) :
    /\ success_criteria' = or_(success_criteria, updates[i])
    /\ applied' = Append(applied, i)
    /\ UNCHANGED <<user_input, node, trace, response, messages, research_brief,
                   supervisor_messages, raw_notes, final_report, researcher, writer, ui,
                   base_criteria, updates>>

NextMerge == apply_update

SpecMerge == InitMerge /\ [][NextMerge]_vars

\* ---------------------------------------------------------------- extractor
\* parse_success_criteria on its own, on every brief of at most MaxLines
\* lines drawn from Lines.
RECURSIVE SplitLines(_)
\* s.split("\n")
SplitLines(s) ==
  IF \E j \in 1..Len(s) : s[j] = "NL"
  THEN LET e == LineEnd(s, 1)
       IN <<SubSeq(s, 1, e)>> \o SplitLines(SubSeq(s, e + 2, Len(s)))
  ELSE <<s>>

InitParse ==
  /\ user_input \in UserInputs
  /\ node = "parse_success_criteria"
  /\ trace = <<"clarify_with_user", "write_research_brief">>
  /\ response \in {r \in ClarifyResponses : ~r.need_clarification}
  /\ messages = <<HumanMessage(user_input), AIMessage(response.verification)>>
  /\ research_brief \in ExtractorBriefs
  /\ success_criteria = EmptyDict
  /\ supervisor_messages = <<HumanMessage(research_brief \o <<".">>)>>
  /\ raw_notes = <<>>
  /\ final_report = Unset
  /\ researcher = IdleResearcher
  /\ writer = NoWriterCall
  /\ ui = NoSubmission
  /\ base_criteria = EmptyDict
  /\ updates = <<>>
  /\ applied = <<>>

NextParse == parse_success_criteria

SpecParse == InitParse /\ [][NextParse]_vars


\* ---------------------------------------------------------------- scoping graph
\* scope_research: the graph of research_agent_scope.py, which ends after
\* parse_success_criteria.  The edges its add_edge calls declare:
ScopeEdges(n) ==
  CASE n = "clarify_with_user" -> {"write_research_brief"}
    [] n = "write_research_brief" -> {"parse_success_criteria"}
    [] n = "parse_success_criteria" -> {END}

\* the node of the next step: a Command's goto adds to the node's declared
\* edges, it does not replace them; the run ends when no node is triggered
ScopeNextNode(n, gotos) ==
  LET triggered == (ScopeEdges(n) \cup gotos) \ {END}
  IN IF triggered = {} THEN END ELSE CHOOSE t \in triggered : TRUE

\* the conversations scope_research is invoked with: a first request, or the
\* user's answer to an earlier clarification question
ScopeConversations(u) ==
  {<<HumanMessage(u)>>} \cup
  {<<HumanMessage(u0), AIMessage(q), HumanMessage(u)>> :
     u0 \in UserInputs, q \in Questions}

InitScope ==
  /\ user_input \in UserInputs
  /\ node = "clarify_with_user"
  /\ trace = <<>>
  /\ response = [need_clarification |-> FALSE, question |-> "", verification |-> ""]
  /\ messages \in ScopeConversations(user_input)
  /\ research_brief = UnsetBrief
  /\ success_criteria = EmptyDict
  /\ supervisor_messages = <<>>
  /\ raw_notes = <<>>
  /\ final_report = Unset
  /\ researcher = IdleResearcher
  /\ writer = NoWriterCall
  /\ ui = NoSubmission
  /\ base_criteria = EmptyDict
  /\ updates = <<>>
  /\ applied = <<>>

scope_clarify_with_user ==
  /\ node = "clarify_with_user"
  /\ \E resp \in ClarifyResponses :
       /\ response' = resp
       /\ messages' = add_messages(messages, ClarifyUpdate(resp))
       /\ node' = ScopeNextNode(node, {ClarifyGoto(resp)})
  /\ trace' = Append(trace, "clarify_with_user")
  /\ UNCHANGED <<user_input, research_brief, success_criteria, supervisor_messages,
                 raw_notes, final_report, researcher>>
  /\ UNCHANGED writer
  /\ UNCHANGED ui
  /\ UNCHANGED reducer_vars

scope_write_research_brief ==
  /\ node = "write_research_brief"
  /\ \E b \in Briefs :
       /\ research_brief' = b
       /\ supervisor_messages' =
            add(supervisor_messages, <<HumanMessage(b \o <<".">>)>>)
  /\ node' = ScopeNextNode(node, {})
  /\ trace' = Append(trace, "write_research_brief")
  /\ UNCHANGED <<user_input, response, messages, success_criteria, raw_notes,
                 final_report, researcher>>
  /\ UNCHANGED writer
  /\ UNCHANGED ui
  /\ UNCHANGED reducer_vars

scope_parse_success_criteria ==
  /\ node = "parse_success_criteria"
  /\ success_criteria' = or_(success_criteria, ParseSuccessCriteria(research_brief))
  /\ node' = ScopeNextNode(node, {})
  /\ trace' = Append(trace, "parse_success_criteria")
  /\ UNCHANGED <<user_input, response, messages, research_brief,
                 supervisor_messages, raw_notes, final_report, researcher>>
  /\ UNCHANGED writer
  /\ UNCHANGED ui
  /\ UNCHANGED reducer_vars

NextScope ==
  \/ scope_clarify_with_user
  \/ scope_write_research_brief
  \/ scope_parse_success_criteria
  \/ clarify_with_user_raises
  \/ write_research_brief_raises

SpecScope == InitScope /\ [][NextScope]_vars


\* ---------------------------------------------------------------- monitoring UI
\* run_agent_stream: one submission of the streamlit app.  ui.runs counts the
\* executions of `agent` it has started, ui.streamed is the final_report of
\* the run whose events it streamed, ui.report the text it displays.

\* final_state.get("final_report", "") and `report or '(No final report generated)'`
ShownReport(fr) ==
  LET report == IF fr = Unset THEN "" ELSE fr
  IN IF report = "" THEN "(No final report generated)" ELSE report

\* the call agent.astream_events({"messages": [HumanMessage(content=user_input)]})
InitUI ==
  /\ user_input \in UserInputs
  /\ node = "clarify_with_user"
  /\ trace = <<>>
  /\ response = [need_clarification |-> FALSE, question |-> "", verification |-> ""]
  /\ messages = <<HumanMessage(user_input)>>
  /\ research_brief = UnsetBrief
  /\ success_criteria = EmptyDict
  /\ supervisor_messages = <<>>
  /\ raw_notes = <<>>
  /\ final_report = Unset
  /\ researcher = IdleResearcher
  /\ writer = NoWriterCall
  /\ ui = [phase |-> "astream_events", runs |-> 1, streamed |-> Unset, report |-> Unset]
  /\ base_criteria = EmptyDict
  /\ updates = <<>>
  /\ applied = <<>>

\* the event loop is over; agent.ainvoke is called with the same input and
\* starts `agent` from a fresh state
ui_ainvoke ==
  /\ ui.phase = "astream_events"
  /\ node = END
  /\ ui' = [ui EXCEPT !.phase = "ainvoke", !.runs = @ + 1, !.streamed = final_report]
  /\ node' = "clarify_with_user"
  /\ trace' = <<>>
  /\ response' = [need_clarification |-> FALSE, question |-> "", verification |-> ""]
  /\ messages' = <<HumanMessage(user_input)>>
  /\ research_brief' = UnsetBrief
  /\ success_criteria' = EmptyDict
  /\ supervisor_messages' = <<>>
  /\ raw_notes' = <<>>
  /\ final_report' = Unset
  /\ researcher' = IdleResearcher
  /\ writer' = NoWriterCall
  /\ UNCHANGED user_input
  /\ UNCHANGED reducer_vars

\* final_report_box.markdown(...) with the final_report of agent.ainvoke
ui_show_report ==
  /\ ui.phase = "ainvoke"
  /\ node = END
  /\ ui' = [ui EXCEPT !.phase = "shown", !.report = ShownReport(final_report)]
  /\ UNCHANGED <<user_input, node, trace, response, researcher>>
  /\ UNCHANGED state_vars
  /\ UNCHANGED writer
  /\ UNCHANGED reducer_vars

NextUI ==
  \/ clarify_with_user
  \/ write_research_brief
  \/ parse_success_criteria
  \/ run_researcher_agent_invoke
  \/ researcher_tool_call
  \/ researcher_compress
  \/ run_researcher_agent_return
  \/ final_report_generation
  \/ ui_ainvoke
  \/ ui_show_report

SpecUI == InitUI /\ [][NextUI]_vars


\* ================================================================ claims
Executed(n) == n \in Range(trace)
TasksCompleted == IF researcher.status = "returned" THEN 1 ELSE 0

\* C1: in a run of `agent` the stages execute in the order clarify_with_user,
\* write_research_brief, parse_success_criteria, run_researcher_agent,
\* final_report_generation, each at most once and never back to an earlier
\* one; the run ends only after the clarify step (when clarification is
\* needed) or after the last stage.  (A run that aborts does so in the stage
\* that was next.)
C1_StrictStageOrder ==
  /\ IsPrefix(trace, Stages)
  /\ node \notin {END} \cup RaisedNodes =>
       Len(trace) < Len(Stages) /\ node = Stages[Len(trace) + 1]
  /\ node \in RaisedNodes =>
       Len(trace) < Len(Stages) /\ node = Raise(Stages[Len(trace) + 1])
  /\ node = END =>
       \/ trace = Stages
       \/ trace = <<"clarify_with_user">> /\ response.need_clarification

C1_Witness == node = END /\ trace = Stages

\* C2: when the clarification decision says need_clarification, the run ends
\* right after the clarify step: the conversation is the input plus exactly
\* one assistant message, the question; final_report and research_brief are
\* unset; no sub-agent was invoked and no synthesis ran.
C2_ClarificationEndsRun ==
  (Len(trace) >= 1 /\ response.need_clarification) =>
    /\ node = END
    /\ trace = <<"clarify_with_user">>
    /\ messages = <<HumanMessage(user_input), AIMessage(response.question)>>
    /\ final_report = Unset
    /\ research_brief = UnsetBrief
    /\ researcher.status = "idle"

C2_Witness == node = END /\ Len(trace) = 1 /\ response.need_clarification

\* C3: a run that has ended is in exactly one of two states: final_report is
\* set, or the run ended at the clarify step with final_report unset and the
\* clarification question as the last message of the conversation.
C3_EndStates ==
  node = END =>
    LET atClarify ==
          /\ trace = <<"clarify_with_user">>
          /\ final_report = Unset
          /\ messages[Len(messages)] = AIMessage(response.question)
    IN (final_report # Unset) # atClarify

C3_Witness == node = END /\ final_report \in Reports /\ Executed("final_report_generation")

\* C4: final_report is assigned exactly once, by final_report_generation: it
\* is unset in every state before synthesis has run, and once set its value
\* is never replaced.
C4_FinalReportWrittenOnce ==
  /\ [](final_report # Unset => Executed("final_report_generation"))
  /\ [][final_report # Unset => final_report' = final_report]_vars

\* C5: merging an update U into a current mapping M through the reducer
\* gives the keys of M and of U, and for a criterion in both the value
\* M[C] OR U[C].
C5_OrMerge ==
  Len(applied) = 1 =>
    LET M == base_criteria
        U == updates[applied[1]]
    IN /\ DOMAIN success_criteria = (DOMAIN M) \cup (DOMAIN U)
       /\ \A c \in (DOMAIN M) \cap (DOMAIN U) : success_criteria[c] = (M[c] \/ U[c])

\* C6: merging two contributors' updates gives the same mapping whichever of
\* the two is applied first.
C6_MergeOrderIndependent ==
  Len(applied) = 2 =>
    success_criteria =
      or_(or_(base_criteria, updates[applied[2]]), updates[applied[1]])

\* C7: the key set of success_criteria only grows: a key present in one state
\* of a run is present in every later state.
C7_KeysOnlyGrow ==
  [][(DOMAIN success_criteria) \subseteq (DOMAIN success_criteria')]_vars

\* the research stage merged a report that does not name a criterion of the
\* brief, and the criterion is still a key
C7_Witness ==
  /\ researcher.status = "returned"
  /\ "success_criteria" \in researcher.present
  /\ \E k \in DOMAIN success_criteria : k \notin DOMAIN researcher.success_criteria

\* C8: when synthesis begins, raw_notes holds exactly one entry per completed
\* research task.
C8_OneFindingPerTask ==
  node = "final_report_generation" => Len(raw_notes) = TasksCompleted

\* C9: synthesis never starts while a dispatched sub-agent is running: when
\* final_report_generation is the next node or has run, the sub-agent
\* invocation has returned and its raw notes are in the run state.
C9_JoinBeforeSynthesis ==
  (node = "final_report_generation" \/ Executed("final_report_generation")) =>
    /\ researcher.status = "returned"
    /\ raw_notes = Get(researcher, "raw_notes", <<>>)

C9_Witness ==
  /\ node = "final_report_generation"
  /\ researcher.status = "returned"
  /\ researcher.tool_call_iterations > 0
  /\ raw_notes # <<>>

\* the lines of the trailing section: those after the last heading line
SectionItems(brief) ==
  LET ls == SplitLines(brief)
      h == CHOOSE i \in 1..Len(ls) :
             ls[i] = <<"SC">> /\ \A j \in (i + 1)..Len(ls) : ls[j] # <<"SC">>
  IN SubSeq(ls, h + 1, Len(ls))

IsBulletItem(l) == l # <<>> /\ l[1] \in Markers /\ CleanLine(Tail(l)) # <<>>

\* the brief ends with a heading line followed by one or more bullet items,
\* each a marker and a text, no two with the same text
WellFormedSection(brief) ==
  /\ \E i \in 1..Len(SplitLines(brief)) : SplitLines(brief)[i] = <<"SC">>
  /\ LET items == SectionItems(brief)
     IN /\ items # <<>>
        /\ \A i \in 1..Len(items) : IsBulletItem(items[i])
        /\ \A i, j \in 1..Len(items) :
             CleanLine(Tail(items[i])) = CleanLine(Tail(items[j])) => i = j

\* C10: for a brief with a well-formed "Success Criteria" section of k bullet
\* items, parse_success_criteria returns exactly k keys, every value false.
C10_KKeysAllFalse ==
  (node = "run_researcher_agent" /\ WellFormedSection(research_brief)) =>
    /\ Cardinality(DOMAIN success_criteria) = Len(SectionItems(research_brief))
    /\ \A k \in DOMAIN success_criteria : success_criteria[k] = FALSE


\* the brief is unset or empty, or none of its lines is the heading
NoHeading(brief) ==
  \/ brief = UnsetBrief
  \/ brief = <<>>
  \/ \A i \in 1..Len(SplitLines(brief)) : SplitLines(brief)[i] # <<"SC">>

\* C11: for a brief that is empty, unset or has no "Success Criteria"
\* heading, parse_success_criteria returns the empty mapping and the run
\* goes on to the research stage.
C11_NoHeadingNoCriteria ==
  (NoHeading(research_brief) /\ Executed("parse_success_criteria")) =>
    success_criteria = EmptyDict /\ node = "run_researcher_agent"


\* ---------------------------------------------------------------- re-extraction
\* parse_success_criteria called up to MaxParseCalls times on one brief, from
\* run states whose other fields differ: criteria already flagged, notes
\* already collected.
MaxParseCalls == 2

FlaggedCriteria(brief) ==
  {EmptyDict} \cup
  {[k \in CriteriaKeys(brief) \cup ExtraKeys |-> v] : v \in BOOLEAN}

InitReparse ==
  /\ user_input \in UserInputs
  /\ node = "parse_success_criteria"
  /\ trace = <<"clarify_with_user", "write_research_brief">>
  /\ response \in {r \in ClarifyResponses : ~r.need_clarification}
  /\ messages = <<HumanMessage(user_input), AIMessage(response.verification)>>
  /\ research_brief \in ExtractorBriefs
  /\ success_criteria \in FlaggedCriteria(research_brief)
  /\ base_criteria = success_criteria
  /\ supervisor_messages = <<HumanMessage(research_brief \o <<".">>)>>
  /\ raw_notes \in {<<>>, << <<"a">> >>}
  /\ final_report = Unset
  /\ researcher = IdleResearcher
  /\ writer = NoWriterCall
  /\ ui = NoSubmission
  /\ updates = <<>>
  /\ applied = <<>>

\* one call of parse_success_criteria(state); its return value is recorded in
\* updates and merged into the success_criteria channel
call_parse_success_criteria ==
  /\ node = "parse_success_criteria"
  /\ Len(updates) < MaxParseCalls
  /\ LET u == ParseSuccessCriteria(research_brief)
     IN /\ updates' = Append(updates, u)
        /\ success_criteria' = or_(success_criteria, u)
  /\ UNCHANGED <<user_input, node, trace, response, messages, research_brief,
                 supervisor_messages, raw_notes, final_report, researcher, writer, ui,
                 base_criteria, applied>>

NextReparse == call_parse_success_criteria

SpecReparse == InitReparse /\ [][NextReparse]_vars

InitAppend ==
  /\ user_input \in UserInputs
  /\ node = END
  /\ trace = <<>>
  /\ response = [need_clarification |-> FALSE, question |-> "", verification |-> ""]
  /\ messages = <<HumanMessage(user_input)>>
  /\ research_brief = UnsetBrief
  /\ base_criteria = EmptyDict
  /\ success_criteria = EmptyDict
  /\ supervisor_messages = <<>>
  /\ raw_notes \in NoteSeqs
  /\ final_report = Unset
  /\ researcher = IdleResearcher
  /\ writer = NoWriterCall
  /\ ui = NoSubmission
  /\ updates \in [1..MaxContributors -> NoteSeqs]
  /\ applied = <<>>

\* the channel receives contributor i's update {"raw_notes": updates[i]}
apply_notes_update ==
  \E i \in (DOMAIN updates) \ Range(applied) :
    /\ raw_notes' = add(raw_notes, updates[i])
    /\ applied' = Append(applied, i)
    /\ UNCHANGED <<user_input, node, trace, response, messages, research_brief,
                   success_criteria, supervisor_messages, final_report, researcher, writer, ui,
                   base_criteria, updates>>

NextAppend == apply_notes_update

SpecAppend == InitAppend /\ [][NextAppend]_vars

\* C13: research_brief is set before any research sub-agent is invoked: in no
\* state has a sub-agent been started while research_brief is unset.
C13_BriefBeforeResearch ==
  researcher.status # "idle" =>
    research_brief # UnsetBrief /\ Executed("write_research_brief")

C13_Witness == researcher.status = "running" /\ research_brief \in Briefs

\* C14: research_brief is written at most once, by write_research_brief, and
\* no later stage changes it.
C14_BriefWrittenOnce ==
  [][research_brief' # research_brief =>
       /\ node = "write_research_brief"
       /\ research_brief = UnsetBrief
       /\ node' = "parse_success_criteria"]_vars

C14_Witness ==
  /\ node = END
  /\ Executed("final_report_generation")
  /\ research_brief \in Briefs

\* C15: raw_notes is append-only: an update leaves the previous list as a
\* prefix of the new one and adds every fragment of the update, also one
\* equal to an entry the list already holds.
C15_RawNotesAppendOnly ==
  [][/\ IsPrefix(raw_notes, raw_notes')
     /\ applied' # applied =>
          Len(raw_notes') = Len(raw_notes) + Len(updates[applied'[Len(applied')]])]_vars

\* a list of one entry received an update of one fragment equal to it
C15_Witness ==
  /\ Len(applied) = 1
  /\ Len(updates[applied[1]]) = 1
  /\ Len(raw_notes) = 2
  /\ raw_notes[1] = raw_notes[2]

\* C16: supervisor_messages is append-only and never truncated: every stage
\* update leaves the previous sequence as a prefix of the new one.
C16_SupervisorMessagesAppendOnly ==
  [][IsPrefix(supervisor_messages, supervisor_messages')]_vars

C16_Witness ==
  /\ researcher.status = "returned"
  /\ researcher.tool_call_iterations > 0
  /\ Len(supervisor_messages) > Len(researcher.researcher_messages)

\* C17: the conversation is append-only: every stage that updates messages
\* leaves the earlier entries in place and in order and adds at the end.
C17_ConversationAppendOnly ==
  [][IsPrefix(messages, messages')]_vars

C17_Witness ==
  /\ Executed("final_report_generation")
  /\ Len(messages) = 3
  /\ messages[1] = HumanMessage(user_input)

\* the nodes of a run aborted in one of the two scoping steps
ScopingAborted == {Raise("clarify_with_user"), Raise("write_research_brief")}

\* C18: when the structured-output invocation of clarify_with_user or of
\* write_research_brief fails, the run aborts at once: the failing step
\* leaves the run state as it was, and nothing executes afterwards (no retry,
\* no later stage).
C18_ScopingFailureAborts ==
  [][/\ node' \in ScopingAborted =>
          /\ state_vars' = state_vars
          /\ trace' = trace
          /\ researcher' = researcher
     /\ node \notin ScopingAborted]_vars

C18_Witness ==
  /\ node = Raise("write_research_brief")
  /\ research_brief = UnsetBrief
  /\ supervisor_messages = <<>>
  /\ Len(messages) = 2

\* C19: when the research stage returns with no raw notes, the run still
\* synthesises: it goes on to end with final_report written by
\* final_report_generation.
C19_EmptyNotesStillSynthesised ==
  (researcher.status = "returned" /\ raw_notes = <<>>) ~>
    (node = END /\ Executed("final_report_generation") /\ final_report \in Reports)

C19_Witness ==
  /\ node = END
  /\ Executed("final_report_generation")
  /\ raw_notes = <<>>
  /\ final_report \in Reports

ToolCallStep ==
  /\ researcher.status = "running"
  /\ researcher'.tool_call_iterations = researcher.tool_call_iterations + 1

\* C21: a tool call of the sub-agent, failed or not, is recorded as one
\* observation at the end of its transcript and leaves the sub-agent running
\* and the run where it was: a failing call ends neither.
C21_ToolFailureRecorded ==
  [][ToolCallStep =>
       /\ \E o \in ToolOutputs :
            researcher'.researcher_messages =
              Append(researcher.researcher_messages, [type |-> "tool", content |-> o])
       /\ researcher'.status = "running"
       /\ node' = node]_vars

\* a failure observation is in the transcript, the loop made another call
\* after it, and the sub-agent went on to compression
C21_Witness ==
  /\ researcher.status = "done"
  /\ \E i \in 1..(Len(researcher.researcher_messages) - 1) :
       /\ researcher.researcher_messages[i].type = "tool"
       /\ researcher.researcher_messages[i].content = "error"
       /\ researcher.researcher_messages[i + 1].type = "tool"

\* the sub-agents in flight: invoked and not yet returned
InFlight == researcher.in_flight

\* C22: whatever the configured maximum of concurrent research tasks, the
\* number of sub-agents in flight never exceeds it.
C22_ConcurrencyWithinLimit ==
  \A limit \in ConcurrencyLimits : InFlight <= limit

\* a sub-agent is in flight, in the middle of its loop
C22_Witness ==
  /\ InFlight = 1
  /\ researcher.status = "running"
  /\ researcher.tool_call_iterations > 0

\* the entries of a message list that a sub-agent's loop produced
TranscriptEntries(msgs) == {i \in DOMAIN msgs : msgs[i].type = "tool"}

\* C23: once the sub-agent has returned, none of the messages of its internal
\* transcript is in supervisor_messages or in the conversation.
C23_SubAgentStateDiscarded ==
  researcher.status = "returned" =>
    /\ TranscriptEntries(supervisor_messages) = {}
    /\ TranscriptEntries(messages) = {}

\* C24: in scope_research, when clarify_with_user decides need_clarification,
\* the run ends there: write_research_brief and parse_success_criteria do not
\* execute, research_brief stays unset and success_criteria stays empty.
C24_ScopeClarificationEndsRun ==
  (Executed("clarify_with_user") /\ response.need_clarification) =>
    /\ node = END
    /\ trace = <<"clarify_with_user">>
    /\ research_brief = UnsetBrief
    /\ success_criteria = EmptyDict

\* the line begins, after optional indentation, with a bullet marker
BeginsWithMarker(l) == LStrip(l) # <<>> /\ LStrip(l)[1] \in Markers

\* the whitespace-normalised texts of the bullet-prefixed lines that follow
\* the trailing heading line
BulletLineKeys(brief) ==
  IF NoHeading(brief) THEN {}
  ELSE LET items == SectionItems(brief)
       IN {CleanLine(Tail(LStrip(items[i]))) :
             i \in {j \in 1..Len(items) : BeginsWithMarker(items[j])}} \ {<<>>}

\* C25: the keys parse_success_criteria returns are exactly the normalised
\* texts of the bullet-prefixed lines after the trailing "Success Criteria"
\* heading: nothing from a line without a leading marker, no fragment of a
\* line, nothing from before the heading.
C25_KeysAreBulletLines ==
  Executed("parse_success_criteria") =>
    DOMAIN success_criteria = BulletLineKeys(research_brief)

\* C26: when the clarification decision has need_clarification false, the
\* clarify step appends exactly one assistant message, the verification text
\* and not the question, and the next node is write_research_brief.
C26_VerificationThenBrief ==
  [][(node = "clarify_with_user" /\ trace' # trace /\ ~response'.need_clarification) =>
       /\ messages' = Append(messages, AIMessage(response'.verification))
       /\ node' = "write_research_brief"]_vars

C26_Witness ==
  /\ ~response.need_clarification
  /\ Executed("write_research_brief")
  /\ Len(messages) = 2
  /\ messages[2] = AIMessage(response.verification)
  /\ messages[2] # AIMessage(response.question)

RECURSIVE Offset(_, _)
\* the length of the text before the i-th entry: the earlier entries and one
\* separator after each
Offset(notes, i) ==
  IF i = 1 THEN 0 ELSE Offset(notes, i - 1) + Len(notes[i - 1]) + 1

\* text is the entries of notes, each once, in order, one newline between
\* neighbours and nothing else
ConcatenationOf(text, notes) ==
  /\ Len(text) =
       IF notes = <<>> THEN 0 ELSE Offset(notes, Len(notes)) + Len(notes[Len(notes)])
  /\ \A i \in 1..Len(notes) :
       SubSeq(text, Offset(notes, i) + 1, Offset(notes, i) + Len(notes[i])) = notes[i]
  /\ \A i \in 2..Len(notes) : text[Offset(notes, i)] = "NL"

\* C27: the prompt given to the writer model holds the run's research_brief
\* and, as findings, the concatenation of all entries of raw_notes, each
\* once, in append order.
C27_FindingsAreAllNotes ==
  writer.called =>
    /\ writer.research_brief = research_brief
    /\ ConcatenationOf(writer.findings, raw_notes)

\* synthesis ran on two different fragments
C27_Witness ==
  /\ writer.called
  /\ raw_notes = << <<"a">>, <<"b">> >>
  /\ writer.findings = <<"a", "NL", "b">>

\* C28: whatever content the writer model returns becomes final_report
\* unchanged, is announced in the conversation, and the run ends: no
\* validation stands between the reply and the end of the run.
C28_NoValidationGate ==
  [][(node = "final_report_generation" /\ ~writer.called /\ writer'.called) =>
       /\ final_report' = writer'.content
       /\ messages' =
            Append(messages,
                   HumanMessage(<<"Here is the final report: ", writer'.content>>))
       /\ node' = END]_vars

\* the run ended with a reply that has none of the structural elements
C28_Witness ==
  /\ node = END
  /\ writer.called
  /\ writer.content = ""
  /\ final_report = ""

\* C29: a sub-agent is started with fresh execution state, whatever the run
\* state holds: tool-call counter 0, empty compressed finding, no raw notes.
C29_FreshSubAgentState ==
  [][(researcher.status = "idle" /\ researcher'.status = "running") =>
       /\ researcher'.tool_call_iterations = 0
       /\ researcher'.compressed_research = ""
       /\ researcher'.raw_notes = <<>>]_vars

\* a sub-agent just started from a run state that already holds messages
\* and criteria
C29_Witness ==
  /\ researcher.status = "running"
  /\ researcher.tool_call_iterations = 0
  /\ researcher.raw_notes = <<>>
  /\ researcher.researcher_messages = supervisor_messages
  /\ supervisor_messages # <<>>
  /\ success_criteria # EmptyDict

\* C30: when every model invocation and the sub-agent invocation returns, a
\* run of `agent` reaches the end state, and no run executes more than five
\* stages.
C30_RunTerminates ==
  /\ [](Len(trace) <= Len(Stages))
  /\ <>(node = END)

\* the end state after five stage executions
C30_Witness == node = END /\ Len(trace) = 5 /\ writer.called

\* C31: within a run of `agent` a criterion's flag never goes back: a key
\* whose value is true keeps the value true in the next state.
C31_FlagMonotonic ==
  [][\A c \in DOMAIN success_criteria :
       success_criteria[c] => (c \in DOMAIN success_criteria' /\ success_criteria'[c])]_vars

\* the research stage flagged a criterion of the brief and the run ended
C31_Witness ==
  /\ node = END
  /\ Executed("final_report_generation")
  /\ \E c \in DOMAIN ParseSuccessCriteria(research_brief) : success_criteria[c]

\* C33: before the research stage has executed, raw_notes is empty and
\* final_report is unset: clarify_with_user, write_research_brief and
\* parse_success_criteria leave both untouched.
C33_ScopingLeavesNotesAndReport ==
  ~Executed("run_researcher_agent") => raw_notes = <<>> /\ final_report = Unset

\* scoping and extraction are done, criteria were found, research is next
C33_Witness ==
  /\ node = "run_researcher_agent"
  /\ researcher.status = "idle"
  /\ trace = SubSeq(Stages, 1, 3)
  /\ success_criteria # EmptyDict
  /\ raw_notes = <<>>
  /\ final_report = Unset

\* C34: when the sub-agent's result carries no success_criteria, the
\* research stage leaves the run's success_criteria as it was: same keys,
\* same values.
C34_NoReportNoChange ==
  [][(/\ node = "run_researcher_agent"
      /\ researcher.status = "done"
      /\ "success_criteria" \notin researcher.present
      /\ researcher'.status = "returned") =>
       success_criteria' = success_criteria]_vars

\* the stage returned from a result without the key and the criteria of the
\* brief are all still pending
C34_Witness ==
  /\ researcher.status = "returned"
  /\ "success_criteria" \notin researcher.present
  /\ success_criteria # EmptyDict
  /\ success_criteria = ParseSuccessCriteria(research_brief)

\* a key as the extractor should leave it: not empty, no whitespace at
\* either end, no two whitespace characters in a row, no newline
CleanKey(k) ==
  /\ k # <<>>
  /\ ~IsSpace(k[1])
  /\ ~IsSpace(k[Len(k)])
  /\ \A i \in 1..(Len(k) - 1) : ~(IsSpace(k[i]) /\ IsSpace(k[i + 1]))
  /\ \A i \in 1..Len(k) : k[i] # "NL"

\* C35: every key parse_success_criteria returns is non-empty, has no leading
\* or trailing whitespace, no run of two or more whitespace characters and
\* no newline.
C35_KeysAreClean ==
  Executed("parse_success_criteria") =>
    \A k \in DOMAIN success_criteria : CleanKey(k)

\* a line with a double blank gave a key with a single one
C35_Witness ==
  /\ Executed("parse_success_criteria")
  /\ research_brief = <<"SC", "NL", "-", "SP", "a", "SP", "SP", "b">>
  /\ DOMAIN success_criteria = {<<"a", "SP", "b">>}

\* C32: one submission in the monitoring UI executes `agent` exactly once,
\* and the report it displays is the final_report of the run whose events it
\* streamed.
C32_OneRunPerSubmission ==
  ui.phase = "shown" =>
    /\ ui.runs = 1
    /\ ui.report = ShownReport(ui.streamed)

====
